---- MODULE Spec2Model ----
(***************************************************************************)
(* Model of the Aliyun OSS POST-policy builder (package oss_addons) and of *)
(* its presigning step (PresignedPostPolicyV1, signer.PostPresignSignatureV1).*)
(*                                                                         *)
(* Go strings and []byte buffers are sequences of bytes (0..255).  A       *)
(* time.Time is the record [day, sec, nsec, offset]: the instant as days    *)
(* since 0001-01-01T00:00:00Z, seconds within that UTC day and nanoseconds *)
(* within the second, and the zone offset of its Location in seconds east  *)
(* of UTC.                                                                 *)
(***************************************************************************)
EXTENDS Integers, Sequences, FiniteSets, TLC

(***************************************************************************)
(* Bytes and string literals                                               *)
(***************************************************************************)

\* The printable ASCII characters, in code order starting at 0x20 (the grave
\* accent, 0x60, cannot be written in a TLA+ string and is named instead).
AsciiTable ==
    << " ", "!", "\"", "#", "$", "%", "&", "'", "(", ")", "*", "+", ",", "-", ".", "/",
       "0", "1", "2", "3", "4", "5", "6", "7", "8", "9", ":", ";", "<", "=", ">", "?",
       "@", "A", "B", "C", "D", "E", "F", "G", "H", "I", "J", "K", "L", "M", "N", "O",
       "P", "Q", "R", "S", "T", "U", "V", "W", "X", "Y", "Z", "[", "\\", "]", "^", "_",
       "grave", "a", "b", "c", "d", "e", "f", "g", "h", "i", "j", "k", "l", "m", "n", "o",
       "p", "q", "r", "s", "t", "u", "v", "w", "x", "y", "z", "{", "|", "}", "~" >>

AsciiChars == { AsciiTable[i] : i \in 1..Len(AsciiTable) }

\* The byte of a printable ASCII character.
Ord == [c \in AsciiChars |-> (CHOOSE i \in 1..Len(AsciiTable) : AsciiTable[i] = c) + 31]

\* The bytes of a literal written as a tuple of characters.
Lit(chars) == [i \in 1..Len(chars) |-> Ord[chars[i]]]

\* The byte of one character.
Chr(c) == Ord[c]

RECURSIVE Concat(_)
\* The concatenation of a sequence of byte sequences.
Concat(ss) == IF ss = <<>> THEN <<>> ELSE Head(ss) \o Concat(Tail(ss))

\* s[i:] and s[i:j] of Go, with 0-based offsets.
From(s, i) == SubSeq(s, i + 1, Len(s))
Slice(s, i, j) == SubSeq(s, i + 1, j)

\* Whether s starts with prefix at 0-based offset i.
HasAt(s, i, prefix) ==
    /\ i + Len(prefix) <= Len(s)
    /\ \A k \in 1..Len(prefix) : s[i + k] = prefix[k]

(***************************************************************************)
(* unicode/utf8 and strings, as used by the builder                        *)
(***************************************************************************)

\* utf8.RuneError, the replacement character U+FFFD.
RuneError == 65533

\* utf8.RuneSelf: bytes below it are single-byte runes.
RuneSelf == 128

\* A continuation byte 10xxxxxx.
IsCont(b) == 128 <= b /\ b <= 191

\* The bounds utf8 accepts for the second byte after first byte b0
\* (overlong forms, surrogates and values above U+10FFFF are refused).
AcceptLo(b0) == IF b0 = 224 THEN 160 ELSE IF b0 = 240 THEN 144 ELSE 128
AcceptHi(b0) == IF b0 = 237 THEN 159 ELSE IF b0 = 244 THEN 143 ELSE 191

\* The length the first byte announces; 0 for a byte that starts no sequence.
SeqLen(b0) ==
    IF b0 < 128 THEN 1
    ELSE IF 194 <= b0 /\ b0 <= 223 THEN 2
    ELSE IF 224 <= b0 /\ b0 <= 239 THEN 3
    ELSE IF 240 <= b0 /\ b0 <= 244 THEN 4
    ELSE 0

\* utf8.DecodeRuneInString(s[i:]): the rune and its width in bytes.
DecodeRuneInString(s, i) ==
    IF i >= Len(s) THEN [r |-> RuneError, size |-> 0]
    ELSE
      LET n  == Len(s) - i
          s0 == s[i + 1]
          sz == SeqLen(s0)
          bad == [r |-> RuneError, size |-> 1]
      IN  IF sz = 1 THEN [r |-> s0, size |-> 1]
          ELSE IF sz = 0 \/ n < sz THEN bad
          ELSE IF s[i + 2] < AcceptLo(s0) \/ AcceptHi(s0) < s[i + 2] THEN bad
          ELSE IF sz = 2
               THEN [r |-> (s0 % 32) * 64 + (s[i + 2] % 64), size |-> 2]
          ELSE IF ~IsCont(s[i + 3]) THEN bad
          ELSE IF sz = 3
               THEN [r |-> (s0 % 16) * 4096 + (s[i + 2] % 64) * 64 + (s[i + 3] % 64),
                     size |-> 3]
          ELSE IF ~IsCont(s[i + 4]) THEN bad
          ELSE [r |-> (s0 % 8) * 262144 + (s[i + 2] % 64) * 4096
                      + (s[i + 3] % 64) * 64 + (s[i + 4] % 64),
                size |-> 4]

\* unicode.IsSpace: the White_Space code points.
IsSpace(r) ==
    \/ r \in 9..13
    \/ r \in {32, 133, 160, 5760, 8232, 8233, 8239, 8287, 12288}
    \/ r \in 8192..8202

RECURSIVE TrimLeft(_, _)
\* The offset of the first rune of s at or after i that is no space.
TrimLeft(s, i) ==
    IF i >= Len(s) THEN Len(s)
    ELSE LET d == DecodeRuneInString(s, i)
         IN  IF IsSpace(d.r) THEN TrimLeft(s, i + d.size) ELSE i

RECURSIVE TrimRight(_, _, _)
\* The offset just after the last rune of s, from i on, that is no space
\* (end: that offset for the runes before i).
TrimRight(s, i, end) ==
    IF i >= Len(s) THEN end
    ELSE LET d == DecodeRuneInString(s, i)
         IN  TrimRight(s, i + d.size, IF IsSpace(d.r) THEN end ELSE i + d.size)

\* strings.TrimSpace
TrimSpace(s) ==
    LET lo == TrimLeft(s, 0) IN Slice(s, lo, TrimRight(s, lo, lo))

(***************************************************************************)
(* JSON string escaping                                                    *)
(***************************************************************************)

\* The lowercase hexadecimal digits.
_hex == Lit(<<"0", "1", "2", "3", "4", "5", "6", "7", "8", "9",
              "a", "b", "c", "d", "e", "f">>)

\* tryAddRuneSelf that also escapes the characters HTML gives a meaning to,
\* as encoding/json does: <, > and & become \u00XX.
tryAddRuneSelfHTML(buf, b) ==
    IF b >= RuneSelf THEN [buf |-> buf, ok |-> FALSE]
    ELSE IF 32 <= b /\ b \notin {Chr("\\"), Chr("\""), Chr("<"), Chr(">"), Chr("&")}
         THEN [buf |-> Append(buf, b), ok |-> TRUE]
    ELSE IF b = Chr("\\") \/ b = Chr("\"")
         THEN [buf |-> buf \o <<Chr("\\"), b>>, ok |-> TRUE]
    ELSE IF b = 10 THEN [buf |-> buf \o Lit(<<"\\", "n">>), ok |-> TRUE]
    ELSE IF b = 13 THEN [buf |-> buf \o Lit(<<"\\", "r">>), ok |-> TRUE]
    ELSE IF b = 9  THEN [buf |-> buf \o Lit(<<"\\", "t">>), ok |-> TRUE]
    ELSE [buf |-> buf \o Lit(<<"\\", "u", "0", "0">>)
                      \o <<_hex[(b \div 16) + 1], _hex[(b % 16) + 1]>>,
          ok |-> TRUE]

\* tryAddRuneSelf: appends b, or its escape, when b is a single-byte rune.
tryAddRuneSelf(buf, b) ==
    IF b >= RuneSelf THEN [buf |-> buf, ok |-> FALSE]
    ELSE IF 32 <= b /\ b # Chr("\\") /\ b # Chr("\"")
         THEN [buf |-> Append(buf, b), ok |-> TRUE]
    ELSE IF b = Chr("\\") \/ b = Chr("\"")
         THEN [buf |-> buf \o <<Chr("\\"), b>>, ok |-> TRUE]
    ELSE IF b = 10 THEN [buf |-> buf \o Lit(<<"\\", "n">>), ok |-> TRUE]
    ELSE IF b = 13 THEN [buf |-> buf \o Lit(<<"\\", "r">>), ok |-> TRUE]
    ELSE IF b = 9  THEN [buf |-> buf \o Lit(<<"\\", "t">>), ok |-> TRUE]
    ELSE [buf |-> buf \o Lit(<<"\\", "u", "0", "0">>)
                      \o <<_hex[(b \div 16) + 1], _hex[(b % 16) + 1]>>,
          ok |-> TRUE]

\* tryAppendRuneError without the test of the size: a well-formed U+FFFD of
\* the input is taken for an invalid byte.
tryAppendRuneErrorAnySize(buf, r, size) ==
    IF r = RuneError
    THEN [buf |-> buf \o Lit(<<"\\", "u", "f", "f", "f", "d">>), ok |-> TRUE]
    ELSE [buf |-> buf, ok |-> FALSE]

\* tryAppendRuneError: appends the escape of U+FFFD for an invalid byte.
tryAppendRuneError(buf, r, size) ==
    IF r = RuneError /\ size = 1
    THEN [buf |-> buf \o Lit(<<"\\", "u", "f", "f", "f", "d">>), ok |-> TRUE]
    ELSE [buf |-> buf, ok |-> FALSE]

RECURSIVE safeAppendFrom(_, _, _)
\* The loop of safeAppendString from offset i on.
safeAppendFrom(buf, s, i) ==
    IF ~(i < Len(s)) THEN buf
    ELSE
      LET a == tryAddRuneSelf(buf, s[i + 1])
      IN  IF a.ok THEN safeAppendFrom(a.buf, s, i + 1)
          ELSE
            LET d == DecodeRuneInString(s, i)
                e == tryAppendRuneError(a.buf, d.r, d.size)
            IN  IF e.ok THEN safeAppendFrom(e.buf, s, i + 1)
                ELSE safeAppendFrom(e.buf \o Slice(s, i, i + d.size), s, i + d.size)

\* safeAppendString JSON-escapes s and appends it to buf.
safeAppendString(buf, s) == safeAppendFrom(buf, s, 0)

(***************************************************************************)
(* strconv and time, as used by marshalJSON                                *)
(***************************************************************************)

\* The decimal digit of d \in 0..9.
Digit(d) == Chr("0") + d

RECURSIVE AppendUint(_, _)
\* The decimal digits of n >= 0 appended to buf.
AppendUint(buf, n) ==
    IF n < 10 THEN Append(buf, Digit(n))
    ELSE Append(AppendUint(buf, n \div 10), Digit(n % 10))

\* strconv.AppendInt(buf, n, 10)
AppendInt(buf, n) ==
    IF n < 0 THEN AppendUint(Append(buf, Chr("-")), -n) ELSE AppendUint(buf, n)

RECURSIVE AppendPadded(_, _, _)
\* n >= 0 in decimal, zero-padded to at least width digits.
AppendPadded(buf, n, width) ==
    IF width <= 1 /\ n < 10 THEN Append(buf, Digit(n))
    ELSE Append(AppendPadded(buf, n \div 10, width - 1), Digit(n % 10))

\* The zero time.Time: 0001-01-01T00:00:00Z.
ZeroTime == [day |-> 0, sec |-> 0, nsec |-> 0, offset |-> 0]

\* Time.IsZero
IsZero(t) == t.day = 0 /\ t.sec = 0 /\ t.nsec = 0

\* Days from 0001-01-01 to the civil date y-m-d (proleptic Gregorian).
DaysFromCivil(y, m, d) ==
    LET yy  == IF m <= 2 THEN y - 1 ELSE y
        era == yy \div 400
        yoe == yy - era * 400
        mp  == IF m > 2 THEN m - 3 ELSE m + 9
        doy == (153 * mp + 2) \div 5 + d - 1
        doe == yoe * 365 + yoe \div 4 - yoe \div 100 + doy
    IN  era * 146097 + doe - 306

\* The civil date of the day that is days after 0001-01-01.
CivilFromDays(days) ==
    LET z   == days + 306
        era == z \div 146097
        doe == z - era * 146097
        yoe == (doe - doe \div 1460 + doe \div 36524 - doe \div 146096) \div 365
        doy == doe - (365 * yoe + yoe \div 4 - yoe \div 100)
        mp  == (5 * doy + 2) \div 153
        m   == IF mp < 10 THEN mp + 3 ELSE mp - 9
    IN  [year  |-> yoe + era * 400 + (IF m <= 2 THEN 1 ELSE 0),
         month |-> m,
         day   |-> doy - (153 * mp + 2) \div 5 + 1]

\* time.Date(y, m, d, h, mi, s, nsec, loc) for a zone offset seconds east of UTC.
Date(y, m, d, h, mi, s, nsec, offset) ==
    LET utc == h * 3600 + mi * 60 + s - offset
    IN  [day    |-> DaysFromCivil(y, m, d) + utc \div 86400,
         sec    |-> utc % 86400,
         nsec   |-> nsec,
         offset |-> offset]

\* The clock and calendar fields of t in its own location.
Fields(t) ==
    LET local == t.sec + t.offset
        sod   == local % 86400
    IN  [date |-> CivilFromDays(t.day + local \div 86400),
         hour |-> sod \div 3600, minute |-> (sod % 3600) \div 60, second |-> sod % 60]

RECURSIVE TrimZeros(_)
\* digits without its trailing zeros.
TrimZeros(digits) ==
    IF digits # <<>> /\ digits[Len(digits)] = Chr("0")
    THEN TrimZeros(SubSeq(digits, 1, Len(digits) - 1))
    ELSE digits

\* The fractional-second element ".999": the first three digits of the
\* nanoseconds, trailing zeros removed, and nothing at all when none is left.
formatNano(buf, nsec) ==
    LET digits == TrimZeros(SubSeq(AppendPadded(<<>>, nsec, 9), 1, 3))
    IN  IF digits = <<>> THEN buf ELSE Append(buf, Chr(".")) \o digits

\* expirationDateFormat, as the elements time.AppendFormat reads in it: the
\* final "Z" is no zone element of a layout ("Z07:00" is) and is copied as is.
expirationDateFormat ==
    <<"2006", "-", "01", "-", "02", "T", "15", ":", "04", ":", "05", ".999", "Z">>

\* One element of a layout appended to buf for time t with fields f.
AppendElement(buf, t, f, el) ==
        CASE el = "2006" -> AppendPadded(buf, f.date.year, 4)
          [] el = "01"   -> AppendPadded(buf, f.date.month, 2)
          [] el = "02"   -> AppendPadded(buf, f.date.day, 2)
          [] el = "15"   -> AppendPadded(buf, f.hour, 2)
          [] el = "04"   -> AppendPadded(buf, f.minute, 2)
          [] el = "05"   -> AppendPadded(buf, f.second, 2)
          [] el = ".999" -> formatNano(buf, t.nsec)
          [] el = ".000" -> Append(buf, Chr(".")) \o SubSeq(AppendPadded(<<>>, t.nsec, 9), 1, 3)
          [] OTHER       -> Append(buf, Chr(el))

RECURSIVE AppendLayout(_, _, _, _, _)
\* The elements of layout from the i-th on, appended to buf.
AppendLayout(buf, t, f, layout, i) ==
    IF i > Len(layout) THEN buf
    ELSE AppendLayout(AppendElement(buf, t, f, layout[i]), t, f, layout, i + 1)

\* Time.AppendFormat(buf, layout)
AppendFormat(t, buf, layout) == AppendLayout(buf, t, Fields(t), layout, 1)

(***************************************************************************)
(* encoding/base64                                                         *)
(***************************************************************************)

\* The standard alphabet of base64.StdEncoding.
encodeStd ==
    Lit(<<"A", "B", "C", "D", "E", "F", "G", "H", "I", "J", "K", "L", "M",
          "N", "O", "P", "Q", "R", "S", "T", "U", "V", "W", "X", "Y", "Z",
          "a", "b", "c", "d", "e", "f", "g", "h", "i", "j", "k", "l", "m",
          "n", "o", "p", "q", "r", "s", "t", "u", "v", "w", "x", "y", "z",
          "0", "1", "2", "3", "4", "5", "6", "7", "8", "9", "+", "/">>)

\* The padding character of base64.StdEncoding.
StdPadding == Chr("=")

\* The k-th character (k in 0..3) of the group that encodes the three
\* source bytes from 0-based offset i on; bytes past the end of src count as
\* zero and a character that holds no source bit is padding.
EncodeChar(src, i, k) ==
    LET n  == Len(src) - i
        b0 == src[i + 1]
        b1 == IF n > 1 THEN src[i + 2] ELSE 0
        b2 == IF n > 2 THEN src[i + 3] ELSE 0
    IN  CASE k = 0 -> encodeStd[(b0 \div 4) + 1]
          [] k = 1 -> encodeStd[((b0 % 4) * 16) + (b1 \div 16) + 1]
          [] k = 2 -> IF n > 1 THEN encodeStd[((b1 % 16) * 4) + (b2 \div 64) + 1]
                      ELSE StdPadding
          [] k = 3 -> IF n > 2 THEN encodeStd[(b2 % 64) + 1] ELSE StdPadding

\* base64.StdEncoding.EncodeToString: four characters for every three
\* source bytes, the last group padded.
EncodeToString(src) ==
    [j \in 1..(4 * ((Len(src) + 2) \div 3)) |->
        EncodeChar(src, 3 * ((j - 1) \div 4), (j - 1) % 4)]

(***************************************************************************)
(* PostPolicy                                                             *)
(***************************************************************************)

\* error values: nil, *InvalidArgumentError (errors.go) and errors.New.
Nil == [type |-> "nil", msg |-> ""]
NewInvalidArgumentError(message) == [type |-> "InvalidArgumentError", msg |-> message]
ErrorsNew(message) == [type |-> "errorString", msg |-> message]

\* A map[string]string with key k set to v.
MapPut(m, k, v) == [x \in (DOMAIN m) \cup {k} |-> IF x = k THEN v ELSE m[x]]

\* The empty map[string]string.
EmptyMap == [x \in {} |-> <<>>]

\* NewPostPolicy - the new, empty post policy.
NewPostPolicy ==
    [expiration         |-> ZeroTime,
     conditions         |-> <<>>,
     contentLengthRange |-> [min |-> 0, max |-> 0],
     formData           |-> EmptyMap]

\* A setter's outcome: the policy after the call and the error returned.
Outcome(p, e) == [p |-> p, err |-> e]

\* addNewPolicy keeping one condition per field: a condition on a field that
\* already has one is not appended.
addNewPolicyOncePerField(p, policyCond) ==
    IF policyCond.matchType = <<>> \/ policyCond.condition = <<>> \/ policyCond.value = <<>>
    THEN [p |-> p, err |-> [type |-> "InvalidArgumentError", msg |-> "policy fields are empty"]]
    ELSE IF \E i \in 1..Len(p.conditions) : p.conditions[i].condition = policyCond.condition
    THEN [p |-> p, err |-> [type |-> "nil", msg |-> ""]]
    ELSE [p |-> [p EXCEPT !.conditions = Append(@, policyCond)],
          err |-> [type |-> "nil", msg |-> ""]]

\* addNewPolicy - appends the condition unless one of its fields is empty.
addNewPolicy(p, policyCond) ==
    IF policyCond.matchType = <<>> \/ policyCond.condition = <<>> \/ policyCond.value = <<>>
    THEN Outcome(p, NewInvalidArgumentError("policy fields are empty"))
    ELSE Outcome([p EXCEPT !.conditions = Append(@, policyCond)], Nil)

\* The body of the string setters without strings.TrimSpace: only the empty
\* string is refused.
setConditionNoTrim(p, arg, emptyMsg, matchType, condition, field) ==
    IF arg = <<>>
    THEN [p |-> p, err |-> [type |-> "InvalidArgumentError", msg |-> emptyMsg]]
    ELSE [p |-> [p EXCEPT !.conditions =
                            Append(@, [matchType |-> matchType, condition |-> condition,
                                       value |-> arg]),
                          !.formData =
                            [x \in (DOMAIN @) \cup {field} |-> IF x = field THEN arg ELSE @[x]]],
          err |-> [type |-> "nil", msg |-> ""]]

\* The body of the string setters with the condition appended before the
\* argument is tested: a refused argument stays in the conditions.
setConditionAppendFirst(p, arg, emptyMsg, matchType, condition, field) ==
    LET policyCond == [matchType |-> matchType, condition |-> condition, value |-> arg]
        q          == [p EXCEPT !.conditions = Append(@, policyCond)]
    IN  IF TrimSpace(arg) = <<>> \/ arg = <<>>
        THEN Outcome(q, NewInvalidArgumentError(emptyMsg))
        ELSE Outcome([q EXCEPT !.formData = MapPut(@, field, arg)], Nil)

\* The body shared by the five string setters: the emptiness check, the
\* condition appended through addNewPolicy, then the form field.
setCondition(p, arg, emptyMsg, matchType, condition, field) ==
    IF TrimSpace(arg) = <<>> \/ arg = <<>>
    THEN Outcome(p, NewInvalidArgumentError(emptyMsg))
    ELSE LET policyCond == [matchType |-> matchType, condition |-> condition, value |-> arg]
             added      == addNewPolicy(p, policyCond)
         IN  IF added.err # Nil THEN Outcome(p, added.err)
             ELSE Outcome([added.p EXCEPT !.formData = MapPut(@, field, arg)], Nil)

MatchEq == Lit(<<"e", "q">>)
MatchStartsWith == Lit(<<"s", "t", "a", "r", "t", "s", "-", "w", "i", "t", "h">>)
CondKey == Lit(<<"$", "k", "e", "y">>)
CondBucket == Lit(<<"$", "b", "u", "c", "k", "e", "t">>)
CondContentType ==
    Lit(<<"$", "C", "o", "n", "t", "e", "n", "t", "-", "T", "y", "p", "e">>)
CondSuccessActionStatus ==
    Lit(<<"$", "s", "u", "c", "c", "e", "s", "s", "_", "a", "c", "t", "i", "o", "n",
          "_", "s", "t", "a", "t", "u", "s">>)

\* SetExpires that stores t before it tests it: the zero instant is stored
\* and the error returned.
SetExpiresStoreFirst(p, t) ==
    IF IsZero(t)
    THEN Outcome([p EXCEPT !.expiration = t], NewInvalidArgumentError("no expiry time set"))
    ELSE Outcome([p EXCEPT !.expiration = t], Nil)

\* SetExpires - sets the expiration time of the policy.
SetExpires(p, t) ==
    IF IsZero(t) THEN Outcome(p, NewInvalidArgumentError("no expiry time set"))
    ELSE Outcome([p EXCEPT !.expiration = t], Nil)

\* SetKey - sets an object name for the policy based upload.
SetKey(p, key) ==
    setCondition(p, key, "object name is empty", MatchEq, CondKey, "key")

\* SetKeyStartsWith that appends its condition and leaves the form field
\* "key" as it was.
SetKeyStartsWithNoField(p, keyStartsWith) ==
    IF TrimSpace(keyStartsWith) = <<>> \/ keyStartsWith = <<>>
    THEN Outcome(p, NewInvalidArgumentError("object prefix is empty"))
    ELSE addNewPolicy(p, [matchType |-> MatchStartsWith, condition |-> CondKey,
                          value |-> keyStartsWith])

\* SetKeyStartsWith - sets a prefix the object name can start with.
SetKeyStartsWith(p, keyStartsWith) ==
    setCondition(p, keyStartsWith, "object prefix is empty", MatchStartsWith, CondKey, "key")

\* SetBucket - sets the bucket objects will be uploaded to.
SetBucket(p, bucketName) ==
    setCondition(p, bucketName, "bucket name is empty", MatchEq, CondBucket, "bucket")

\* SetContentType - sets the content type of the object.
SetContentType(p, contentType) ==
    setCondition(p, contentType, "no content type specified", MatchEq, CondContentType,
                 "Content-Type")

\* SetSuccessStatusAction - sets the success status code of the upload.
SetSuccessStatusAction(p, status) ==
    setCondition(p, status, "status is empty", MatchEq, CondSuccessActionStatus,
                 "success_action_status")

\* SetContentLengthRange refusing equal bounds: min >= max for min > max.
SetContentLengthRangeStrict(p, min, max) ==
    IF min >= max
    THEN Outcome(p, NewInvalidArgumentError("minimum limit is larger than maximum limit"))
    ELSE IF min < 0
    THEN Outcome(p, NewInvalidArgumentError("minimum limit cannot be negative"))
    ELSE Outcome([p EXCEPT !.contentLengthRange = [min |-> min, max |-> max]], Nil)

\* SetContentLengthRange without the checks of the sign: only min > max is
\* refused.
SetContentLengthRangeUnsigned(p, min, max) ==
    IF min > max
    THEN Outcome(p, NewInvalidArgumentError("minimum limit is larger than maximum limit"))
    ELSE Outcome([p EXCEPT !.contentLengthRange = [min |-> min, max |-> max]], Nil)

\* SetContentLengthRange - sets the new min and max content length.
SetContentLengthRange(p, min, max) ==
    IF min > max
    THEN Outcome(p, NewInvalidArgumentError("minimum limit is larger than maximum limit"))
    ELSE IF min < 0
    THEN Outcome(p, NewInvalidArgumentError("minimum limit cannot be negative"))
    ELSE IF max < 0
    THEN Outcome(p, NewInvalidArgumentError("maximum limit cannot be negative"))
    ELSE Outcome([p EXCEPT !.contentLengthRange = [min |-> min, max |-> max]], Nil)

LitExpiration ==
    Lit(<<"{", "\"", "e", "x", "p", "i", "r", "a", "t", "i", "o", "n", "\"", ":", "\"">>)
LitConditions ==
    Lit(<<"\"", ",", "\"", "c", "o", "n", "d", "i", "t", "i", "o", "n", "s", "\"", ":", "[">>)
LitContentLengthRange ==
    Lit(<<"[", "\"", "c", "o", "n", "t", "e", "n", "t", "-", "l", "e", "n", "g", "t", "h",
          "-", "r", "a", "n", "g", "e", "\"", ",">>)
LitOpen == Lit(<<"[", "\"">>)
LitSep == Lit(<<"\"", ",", "\"">>)
LitClose == Lit(<<"\"", "]">>)
LitEnd == Lit(<<"]", "}">>)

\* Whether marshalJSON writes the content-length-range condition.
RangeActive(p) == p.contentLengthRange.min # 0 \/ p.contentLengthRange.max # 0

\* One condition written by the loop of marshalJSON; insertComma is the flag
\* as the loop finds it.
appendCondition(buf, po, insertComma) ==
    LET b0 == IF insertComma THEN Append(buf, Chr(",")) ELSE buf
        b1 == b0 \o LitOpen \o po.matchType \o LitSep
        b2 == safeAppendString(b1, po.condition) \o LitSep
    IN  safeAppendString(b2, po.value) \o LitClose

RECURSIVE appendConditions(_, _, _)
\* The loop of marshalJSON over p.conditions: no iteration changes insertComma.
appendConditions(buf, conds, insertComma) ==
    IF conds = <<>> THEN buf
    ELSE appendConditions(appendCondition(buf, Head(conds), insertComma),
                          Tail(conds), insertComma)

\* marshalJSON writing the content-length-range condition after the others.
marshalJSONRangeLast(p) ==
    LET b0 == AppendFormat(p.expiration, LitExpiration, expirationDateFormat) \o LitConditions
        b1 == appendConditions(b0, p.conditions, FALSE)
        b2 == IF p.conditions # <<>> /\ RangeActive(p) THEN Append(b1, Chr(",")) ELSE b1
    IN  (IF RangeActive(p)
         THEN Append(AppendInt(Append(AppendInt(b2 \o LitContentLengthRange,
                                                p.contentLengthRange.min),
                                      Chr(",")),
                               p.contentLengthRange.max),
                     Chr("]"))
         ELSE b2) \o LitEnd

\* marshalJSON - the policy as JSON bytes.
marshalJSON(p) ==
    LET b0 == AppendFormat(p.expiration, LitExpiration, expirationDateFormat) \o LitConditions
        b1 == IF RangeActive(p)
              THEN Append(AppendInt(Append(AppendInt(b0 \o LitContentLengthRange,
                                                     p.contentLengthRange.min),
                                           Chr(",")),
                                    p.contentLengthRange.max),
                          Chr("]"))
              ELSE b0
    IN  appendConditions(b1, p.conditions, RangeActive(p)) \o LitEnd

\* String - the policy as a JSON formatted string.
String(p) == marshalJSON(p)

\* base64 - the base64 of the marshaled JSON.
base64(p) == EncodeToString(marshalJSON(p))

(***************************************************************************)
(* Package signer and PresignedPostPolicyV1                                *)
(***************************************************************************)

\* hmac.New(sha1.New, key), Write(msg), Sum(nil).  The 20 digest bytes are
\* not computed: the digest is the pair (key, msg) itself, written as the
\* length of the key followed by the key and the message, so that digests
\* are equal exactly when key and message are (no collisions).
hmacSHA1(key, msg) == <<Len(key)>> \o key \o msg

\* PostPresignSignatureV1 - presigned signature for a PostPolicy request.
PostPresignSignatureV1(policyBase64, secretAccessKey) ==
    EncodeToString(hmacSHA1(secretAccessKey, policyBase64))

\* The *url.URL nil and the fields of a URL the presigning reads or writes.
NilURL == [Scheme |-> <<>>, Opaque |-> <<>>, Host |-> <<>>, Path |-> <<>>, nil |-> TRUE]
URL(scheme, opaque, host, path) ==
    [Scheme |-> scheme, Opaque |-> opaque, Host |-> host, Path |-> path, nil |-> FALSE]

\* The 0-based offset of the first byte b of s at or after i; Len(s) if none.
RECURSIVE IndexFrom(_, _, _)
IndexFrom(s, b, i) ==
    IF i >= Len(s) THEN Len(s) ELSE IF s[i + 1] = b THEN i ELSE IndexFrom(s, b, i + 1)

IsLetter(b) == (Chr("a") <= b /\ b <= Chr("z")) \/ (Chr("A") <= b /\ b <= Chr("Z"))
IsSchemeRest(b) == (Chr("0") <= b /\ b <= Chr("9")) \/ b \in {Chr("+"), Chr("-"), Chr(".")}

RECURSIVE getScheme(_, _)
\* getScheme of net/url from offset i on: the offset of the colon that ends
\* a scheme, 0 when the URL has no scheme, -1 for "missing protocol scheme".
getScheme(rawURL, i) ==
    IF i >= Len(rawURL) THEN 0
    ELSE LET c == rawURL[i + 1]
         IN  IF IsLetter(c) THEN getScheme(rawURL, i + 1)
             ELSE IF IsSchemeRest(c) THEN (IF i = 0 THEN 0 ELSE getScheme(rawURL, i + 1))
             ELSE IF c = Chr(":") THEN (IF i = 0 THEN -1 ELSE i)
             ELSE 0

\* The lower-case form of an ASCII letter.
ToLower(b) == IF Chr("A") <= b /\ b <= Chr("Z") THEN b + 32 ELSE b

\* url.Parse for endpoints without fragment, query, user info, escapes or
\* port: the control-character check, the scheme, an opaque rest, the
\* authority after "//" and the path.
urlParse(rawURL) ==
    IF \E i \in 1..Len(rawURL) : rawURL[i] < 32 \/ rawURL[i] = 127
    THEN [u |-> NilURL, err |-> ErrorsNew("net/url: invalid control character in URL")]
    ELSE
      LET colon  == getScheme(rawURL, 0)
          scheme == IF colon > 0
                    THEN [i \in 1..colon |-> ToLower(rawURL[i])] ELSE <<>>
          rest   == IF colon > 0 THEN From(rawURL, colon + 1) ELSE rawURL
          slash  == IndexFrom(rest, Chr("/"), 0)
      IN  IF colon = -1
          THEN [u |-> NilURL, err |-> ErrorsNew("missing protocol scheme")]
          ELSE IF scheme = <<>> /\ IndexFrom(rest, Chr(":"), 0) < slash
          THEN [u |-> NilURL,
                err |-> ErrorsNew("first path segment in URL cannot contain colon")]
          ELSE IF scheme # <<>> /\ ~HasAt(rest, 0, <<Chr("/")>>)
          THEN [u |-> URL(scheme, rest, <<>>, <<>>), err |-> Nil]
          ELSE IF HasAt(rest, 0, <<Chr("/"), Chr("/")>>)
          THEN LET end == IndexFrom(rest, Chr("/"), 2)
               IN  [u |-> URL(scheme, <<>>, Slice(rest, 2, end), From(rest, end)),
                    err |-> Nil]
          ELSE [u |-> URL(scheme, <<>>, <<>>, rest), err |-> Nil]

\* The presigning with the policy written to the form data before the
\* endpoint is parsed: a parse error leaves it there.
presignPolicyFirst(c, p, policy) ==
    LET fail(e, q) ==
            [u |-> NilURL, formData |-> EmptyMap, nilData |-> TRUE, err |-> e, p |-> q]
        p1 == [p EXCEPT !.formData = MapPut(@, "policy", policy)]
    IN  IF IsZero(p.expiration)
        THEN fail(ErrorsNew("expiration time must be specified"), p)
        ELSE IF "key" \notin DOMAIN p.formData
        THEN fail(ErrorsNew("object key must be specified"), p)
        ELSE IF "bucket" \notin DOMAIN p.formData
        THEN fail(ErrorsNew("bucket name must be specified"), p)
        ELSE
          LET parsed == urlParse(c.Endpoint)
              u      == IF ~c.IsCname
                        THEN [parsed.u EXCEPT !.Path = <<Chr("/")>> \o p.formData["bucket"]]
                        ELSE parsed.u
              f3     == MapPut(MapPut(p1.formData, "OSSAccessKeyId", c.AccessKeyID),
                               "signature",
                               PostPresignSignatureV1(policy, c.AccessKeySecret))
          IN  IF parsed.err # Nil THEN fail(parsed.err, p1)
              ELSE [u |-> u, formData |-> f3, nilData |-> FALSE, err |-> Nil,
                    p |-> [p EXCEPT !.formData = f3]]

\* The presigning with the signature computed over the JSON document in
\* place of its base64 form.
presignSignsDocument(c, p, policy) ==
    LET fail(e) == [u |-> NilURL, formData |-> EmptyMap, nilData |-> TRUE, err |-> e, p |-> p]
    IN  IF IsZero(p.expiration)
        THEN fail(ErrorsNew("expiration time must be specified"))
        ELSE IF "key" \notin DOMAIN p.formData
        THEN fail(ErrorsNew("object key must be specified"))
        ELSE IF "bucket" \notin DOMAIN p.formData
        THEN fail(ErrorsNew("bucket name must be specified"))
        ELSE
          LET parsed == urlParse(c.Endpoint)
              u      == IF ~c.IsCname
                        THEN [parsed.u EXCEPT !.Path = <<Chr("/")>> \o p.formData["bucket"]]
                        ELSE parsed.u
              f3     == MapPut(MapPut(MapPut(p.formData, "policy", policy),
                                      "OSSAccessKeyId", c.AccessKeyID),
                               "signature",
                               PostPresignSignatureV1(marshalJSON(p), c.AccessKeySecret))
          IN  IF parsed.err # Nil THEN fail(parsed.err)
              ELSE [u |-> u, formData |-> f3, nilData |-> FALSE, err |-> Nil,
                    p |-> [p EXCEPT !.formData = f3]]

\* The presigning that keeps a policy field the form data already holds:
\* the policy of an earlier call is signed and returned again.
presignKeepsPolicy(c, p, policy) ==
    LET fail(e) == [u |-> NilURL, formData |-> EmptyMap, nilData |-> TRUE, err |-> e, p |-> p]
    IN  IF IsZero(p.expiration)
        THEN fail(ErrorsNew("expiration time must be specified"))
        ELSE IF "key" \notin DOMAIN p.formData
        THEN fail(ErrorsNew("object key must be specified"))
        ELSE IF "bucket" \notin DOMAIN p.formData
        THEN fail(ErrorsNew("bucket name must be specified"))
        ELSE
          LET parsed == urlParse(c.Endpoint)
              u      == IF ~c.IsCname
                        THEN [parsed.u EXCEPT !.Path = <<Chr("/")>> \o p.formData["bucket"]]
                        ELSE parsed.u
              kept   == IF "policy" \in DOMAIN p.formData THEN p.formData["policy"] ELSE policy
              f3     == MapPut(MapPut(MapPut(p.formData, "policy", kept),
                                      "OSSAccessKeyId", c.AccessKeyID),
                               "signature", PostPresignSignatureV1(kept, c.AccessKeySecret))
          IN  IF parsed.err # Nil THEN fail(parsed.err)
              ELSE [u |-> u, formData |-> f3, nilData |-> FALSE, err |-> Nil,
                    p |-> [p EXCEPT !.formData = f3]]

\* PresignedPostPolicyV1 - the POST url and the form data to upload an
\* object: the returned url and form data, the error, and the policy p
\* after the call (the returned form data is the map of p itself).
\* policy is p.base64(), which the code reads after the url is built.
presign(c, p, policy) ==
    LET fail(e) == [u |-> NilURL, formData |-> EmptyMap, nilData |-> TRUE, err |-> e, p |-> p]
    IN  IF IsZero(p.expiration)
        THEN fail(ErrorsNew("expiration time must be specified"))
        ELSE IF "key" \notin DOMAIN p.formData
        THEN fail(ErrorsNew("object key must be specified"))
        ELSE IF "bucket" \notin DOMAIN p.formData
        THEN fail(ErrorsNew("bucket name must be specified"))
        ELSE
          LET bucketName == p.formData["bucket"]
              parsed     == urlParse(c.Endpoint)
              u          == IF ~c.IsCname
                            THEN [parsed.u EXCEPT !.Path = <<Chr("/")>> \o bucketName]
                            ELSE parsed.u
              policyBase64 == policy
              f1 == MapPut(p.formData, "policy", policyBase64)
              f2 == MapPut(f1, "OSSAccessKeyId", c.AccessKeyID)
              f3 == MapPut(f2, "signature",
                           PostPresignSignatureV1(policyBase64, c.AccessKeySecret))
          IN  IF parsed.err # Nil THEN fail(parsed.err)
              ELSE [u |-> u, formData |-> f3, nilData |-> FALSE, err |-> Nil,
                    p |-> [p EXCEPT !.formData = f3]]

PresignedPostPolicyV1(c, p) == presign(c, p, base64(p))

(***************************************************************************)
(* The builder as a state machine: one PostPolicy, driven by its caller    *)
(***************************************************************************)

VARIABLES
    expiration,          \* p.expiration
    conditions,          \* p.conditions
    contentLengthRange,  \* p.contentLengthRange
    formData,            \* p.formData
    call,                \* the last call made: its name and arguments
    err,                 \* the error the last call returned
    ret,                 \* what the last call returned besides the error
    added,               \* the condition-adding calls that succeeded, in order
    twin                 \* a second PostPolicy, given the same setter calls

vars ==
    <<expiration, conditions, contentLengthRange, formData, call, err, ret, added, twin>>

\* The number of conditions a policy is driven to.
MaxConds == 2

\* The arguments the caller passes.
Blank == {<<>>, <<32, 9, 226, 128, 168>>}
Keys == Blank \cup {Lit(<<"\"", "k">>)}
Prefixes == Blank \cup {Lit(<<"p", "/">>)}
Buckets == Blank \cup {Lit(<<"b">>)}
ContentTypes == Blank \cup {Lit(<<"a", "/", "b">>)}
Statuses == Blank \cup {Lit(<<"2", "0", "1">>)}

\* The zone of the caller: eight hours east of UTC.
East8 == 8 * 3600
Times ==
    {ZeroTime,
     Date(2017, 1, 23, 4, 5, 6, 0, East8)}

Ranges == {<<0, 0>>, <<0, 5>>, <<5, 3>>, <<-2, -1>>}

GoodEndpoint == Lit(<<"h", "t", "t", "p", ":", "/", "/", "h">>)
BadEndpoint == Lit(<<":", "x">>)
Endpoints == {GoodEndpoint, BadEndpoint}

\* The fields of oss.Client.Config the presigning reads.
Clients ==
    [Endpoint : Endpoints, IsCname : BOOLEAN,
     AccessKeyID : {Lit(<<"i", "d">>)}, AccessKeySecret : {Lit(<<"s", "k">>)}]
    \ {c \in [Endpoint : Endpoints, IsCname : {TRUE},
               AccessKeyID : {Lit(<<"i", "d">>)}, AccessKeySecret : {Lit(<<"s", "k">>)}] :
          c.Endpoint = BadEndpoint}

NoClient == [Endpoint |-> <<>>, IsCname |-> FALSE, AccessKeyID |-> <<>>, AccessKeySecret |-> <<>>]

\* The record of a call: only the arguments the operation takes are set.
Call(op) == [op |-> op, s |-> <<>>, t |-> ZeroTime, min |-> 0, max |-> 0, c |-> NoClient]

\* What a call returned: the bytes of a view, or the url and form data of
\* the presigning.
NoRet == [buf |-> <<>>, u |-> NilURL, formData |-> EmptyMap, nilData |-> TRUE]

\* The policy p of the current state.
self ==
    [expiration |-> expiration, conditions |-> conditions,
     contentLengthRange |-> contentLengthRange, formData |-> formData]

\* The policy after the call is p.
Becomes(p) ==
    /\ expiration' = p.expiration
    /\ conditions' = p.conditions
    /\ contentLengthRange' = p.contentLengthRange
    /\ formData' = p.formData

Init ==
    /\ expiration = NewPostPolicy.expiration
    /\ conditions = NewPostPolicy.conditions
    /\ contentLengthRange = NewPostPolicy.contentLengthRange
    /\ formData = NewPostPolicy.formData
    /\ call = Call("NewPostPolicy")
    /\ err = Nil
    /\ ret = NoRet
    /\ added = <<>>
    /\ twin = NewPostPolicy

\* The setters that add a condition.
ConditionSetters ==
    {"SetKey", "SetKeyStartsWith", "SetBucket", "SetContentType", "SetSuccessStatusAction"}

\* The setter call c made on the policy q.
Apply(c, q) ==
    CASE c.op = "SetExpires" -> SetExpires(q, c.t)
      [] c.op = "SetKey" -> SetKey(q, c.s)
      [] c.op = "SetKeyStartsWith" -> SetKeyStartsWith(q, c.s)
      [] c.op = "SetBucket" -> SetBucket(q, c.s)
      [] c.op = "SetContentType" -> SetContentType(q, c.s)
      [] c.op = "SetSuccessStatusAction" -> SetSuccessStatusAction(q, c.s)
      [] c.op = "SetContentLengthRange" -> SetContentLengthRange(q, c.min, c.max)

\* A call c of a setter on p, whose outcome is out; the same call is made
\* on the twin.
Setter(c, out) ==
    \E o \in {out} :
    /\ Len(o.p.conditions) <= MaxConds
    /\ Becomes(o.p)
    /\ call' = c
    /\ err' = o.err
    /\ ret' = NoRet
    /\ twin' = Apply(c, twin).p
    /\ added' = IF o.err = Nil /\ c.op \in ConditionSetters THEN Append(added, c) ELSE added

CallSetExpires ==
    \E t \in Times : Setter([Call("SetExpires") EXCEPT !.t = t], SetExpires(self, t))

CallSetKey ==
    \E key \in Keys : Setter([Call("SetKey") EXCEPT !.s = key], SetKey(self, key))

CallSetKeyStartsWith ==
    \E prefix \in Prefixes :
        Setter([Call("SetKeyStartsWith") EXCEPT !.s = prefix], SetKeyStartsWith(self, prefix))

CallSetBucket ==
    \E name \in Buckets : Setter([Call("SetBucket") EXCEPT !.s = name], SetBucket(self, name))

CallSetContentType ==
    \E type \in ContentTypes :
        Setter([Call("SetContentType") EXCEPT !.s = type], SetContentType(self, type))

CallSetSuccessStatusAction ==
    \E status \in Statuses :
        Setter([Call("SetSuccessStatusAction") EXCEPT !.s = status],
               SetSuccessStatusAction(self, status))

CallSetContentLengthRange ==
    \E r \in Ranges :
        Setter([Call("SetContentLengthRange") EXCEPT !.min = r[1], !.max = r[2]],
               SetContentLengthRange(self, r[1], r[2]))

\* A call of a view: String, marshalJSON and base64 have value receivers,
\* they work on a copy of the policy.
View(op, buf) ==
    /\ call' = Call(op)
    /\ err' = Nil
    /\ ret' = [NoRet EXCEPT !.buf = buf]
    /\ UNCHANGED <<expiration, conditions, contentLengthRange, formData, added, twin>>

\* marshalJSON on the policy itself, moving an active range into the
\* conditions it has written.
CallMarshalJSONInPlace ==
    /\ call' = Call("marshalJSON")
    /\ err' = Nil
    /\ ret' = [NoRet EXCEPT !.buf = marshalJSON(self)]
    /\ contentLengthRange' = [min |-> 0, max |-> 0]
    /\ UNCHANGED <<expiration, conditions, formData, added, twin>>

CallString == View("String", String(self))

CallMarshalJSON == View("marshalJSON", marshalJSON(self))

CallBase64 == View("base64", base64(self))

CallPresignedPostPolicyV1 ==
    \E c \in Clients :
        \E r \in {PresignedPostPolicyV1(c, self)} :
            /\ Becomes(r.p)
            /\ call' = [Call("PresignedPostPolicyV1") EXCEPT !.c = c]
            /\ err' = r.err
            /\ ret' = [NoRet EXCEPT !.u = r.u, !.formData = r.formData, !.nilData = r.nilData]
            /\ UNCHANGED <<added, twin>>

Next ==
    \/ CallSetExpires
    \/ CallSetKey
    \/ CallSetKeyStartsWith
    \/ CallSetBucket
    \/ CallSetContentType
    \/ CallSetSuccessStatusAction
    \/ CallSetContentLengthRange
    \/ CallString
    \/ CallMarshalJSON
    \/ CallBase64
    \/ CallPresignedPostPolicyV1

Spec == Init /\ [][Next]_vars

\* The policy driven through its content-length range: more ranges, one
\* other setter and the serialization.
MoreRanges ==
    {<<0, 0>>, <<0, 5>>, <<3, 5>>, <<7, 7>>, <<100, 1000>>, <<0, 2147483647>>,
     <<5, 3>>, <<-1, 2>>, <<-2, -1>>}

RangeSetContentLengthRange ==
    \E r \in MoreRanges :
        Setter([Call("SetContentLengthRange") EXCEPT !.min = r[1], !.max = r[2]],
               SetContentLengthRange(self, r[1], r[2]))

RangeNext ==
    \/ RangeSetContentLengthRange
    \/ CallSetBucket
    \/ CallMarshalJSON

SpecRange == Init /\ [][RangeNext]_vars

\* The policy driven through its expiration: instants in UTC with the
\* milliseconds 000, 120 and 007.
MoreTimes ==
    {ZeroTime,
     Date(2017, 1, 23, 4, 5, 6, 0, 0),
     Date(2017, 1, 23, 4, 5, 6, 120000000, 0),
     Date(2017, 1, 23, 4, 5, 6, 7000000, 0)}

TimeSetExpires ==
    \E t \in MoreTimes : Setter([Call("SetExpires") EXCEPT !.t = t], SetExpires(self, t))

TimeNext ==
    \/ TimeSetExpires
    \/ CallSetKey
    \/ CallSetKeyStartsWith
    \/ CallSetBucket
    \/ CallSetContentType
    \/ CallSetSuccessStatusAction
    \/ CallSetContentLengthRange
    \/ CallMarshalJSON
    \/ CallPresignedPostPolicyV1

SpecTime == Init /\ [][TimeNext]_vars

(***************************************************************************)
(* The escaping driven by its input: a new policy, a string the caller     *)
(* holds, and the calls that escape it                                     *)
(***************************************************************************)

\* The number of pieces an input string is made of.
MaxPieces == 2

\* The pieces: the characters the escaping tells apart, well-formed
\* characters of two, three and four bytes, and bytes that are not
\* well-formed where they stand.
Pieces ==
    {<<34>>, <<92>>, <<10>>, <<13>>, <<9>>, <<1>>, <<31>>,
     <<60>>, <<38>>, <<127>>, <<97>>,
     <<195, 169>>, <<226, 130, 172>>, <<239, 191, 189>>, <<240, 159, 152, 128>>,
     <<128>>, <<195>>, <<226, 130>>, <<255>>, <<237, 160, 128>>}

RECURSIVE PieceStrings(_)
\* The strings of at most n pieces.
PieceStrings(n) ==
    IF n = 0 THEN {<<>>}
    ELSE LET shorter == PieceStrings(n - 1)
         IN  shorter \cup {s \o piece : s \in shorter, piece \in Pieces}

EscapeInputs == PieceStrings(MaxPieces)

EscapeInit ==
    /\ expiration = NewPostPolicy.expiration
    /\ conditions = NewPostPolicy.conditions
    /\ contentLengthRange = NewPostPolicy.contentLengthRange
    /\ formData = NewPostPolicy.formData
    /\ \E s \in EscapeInputs : call = [Call("input") EXCEPT !.s = s]
    /\ err = Nil
    /\ ret = NoRet
    /\ added = <<>>
    /\ twin = NewPostPolicy

\* SetKey with the input as the key.
EscapeSetKey ==
    /\ call.op = "input"
    /\ Setter([Call("SetKey") EXCEPT !.s = call.s], SetKey(self, call.s))

\* marshalJSON of the policy after SetKey.
EscapeMarshalJSON ==
    /\ call.op = "SetKey"
    /\ CallMarshalJSON

\* safeAppendString with the input, on an empty buffer.
EscapeSafeAppendString ==
    /\ call.op = "input"
    /\ call' = [Call("safeAppendString") EXCEPT !.s = call.s]
    /\ err' = Nil
    /\ ret' = [NoRet EXCEPT !.buf = safeAppendString(<<>>, call.s)]
    /\ UNCHANGED <<expiration, conditions, contentLengthRange, formData, added, twin>>

EscapeNext ==
    \/ EscapeSetKey
    \/ EscapeMarshalJSON
    \/ EscapeSafeAppendString

SpecEscape == EscapeInit /\ [][EscapeNext]_vars

(***************************************************************************)
(* A JSON reader (RFC 8259) and a timestamp reader (RFC 3339), the         *)
(* consumers of the serialized policy: the test decodes the document with  *)
(* encoding/json into an expiration time and arrays of conditions.          *)
(***************************************************************************)

\* A decoded value: a string (s: its bytes), a number (s: its literal), an
\* array (items) or an object (keys and items, in the order read).
JValue(t, s, keys, items) == [t |-> t, s |-> s, keys |-> keys, items |-> items]
JNull == JValue("null", <<>>, <<>>, <<>>)

\* The result of reading at an offset: the value and the offset after it.
Read(v, next) == [ok |-> TRUE, next |-> next, v |-> v]
NoRead == [ok |-> FALSE, next |-> 0, v |-> JNull]

IsDigit(b) == Chr("0") <= b /\ b <= Chr("9")
IsHex(b) ==
    IsDigit(b) \/ (Chr("a") <= b /\ b <= Chr("f")) \/ (Chr("A") <= b /\ b <= Chr("F"))
HexVal(b) ==
    IF IsDigit(b) THEN b - Chr("0")
    ELSE IF b >= Chr("a") THEN b - Chr("a") + 10 ELSE b - Chr("A") + 10

\* The UTF-8 bytes of a code point of the basic plane; a surrogate has no
\* encoding and reads as U+FFFD.
EncodeRune(r) ==
    IF r < 128 THEN <<r>>
    ELSE IF r < 2048 THEN <<192 + (r \div 64), 128 + (r % 64)>>
    ELSE IF 55296 <= r /\ r <= 57343 THEN <<239, 191, 189>>
    ELSE <<224 + (r \div 4096), 128 + ((r \div 64) % 64), 128 + (r % 64)>>

RECURSIVE SkipWs(_, _)
\* The offset of the first byte at or after i that is no JSON whitespace.
SkipWs(s, i) ==
    IF i < Len(s) /\ s[i + 1] \in {32, 9, 10, 13} THEN SkipWs(s, i + 1) ELSE i

RECURSIVE ReadChars(_, _, _)
\* The characters of a string after its opening quote, up to the closing
\* one; acc holds the bytes decoded so far.
ReadChars(s, i, acc) ==
    IF i >= Len(s) THEN NoRead
    ELSE
      LET c == s[i + 1]
      IN  IF c = Chr("\"") THEN Read(JValue("string", acc, <<>>, <<>>), i + 1)
          ELSE IF c < 32 THEN NoRead
          ELSE IF c = Chr("\\")
          THEN IF i + 1 >= Len(s) THEN NoRead
               ELSE LET e == s[i + 2]
                    IN  IF e \in {Chr("\""), Chr("\\"), Chr("/")}
                        THEN ReadChars(s, i + 2, Append(acc, e))
                        ELSE IF e = Chr("b") THEN ReadChars(s, i + 2, Append(acc, 8))
                        ELSE IF e = Chr("f") THEN ReadChars(s, i + 2, Append(acc, 12))
                        ELSE IF e = Chr("n") THEN ReadChars(s, i + 2, Append(acc, 10))
                        ELSE IF e = Chr("r") THEN ReadChars(s, i + 2, Append(acc, 13))
                        ELSE IF e = Chr("t") THEN ReadChars(s, i + 2, Append(acc, 9))
                        ELSE IF e = Chr("u") /\ i + 6 <= Len(s)
                                /\ \A k \in 3..6 : IsHex(s[i + k])
                        THEN ReadChars(s, i + 6,
                                 acc \o EncodeRune(HexVal(s[i + 3]) * 4096
                                                   + HexVal(s[i + 4]) * 256
                                                   + HexVal(s[i + 5]) * 16
                                                   + HexVal(s[i + 6])))
                        ELSE NoRead
          ELSE IF c < 128 THEN ReadChars(s, i + 1, Append(acc, c))
          ELSE LET d == DecodeRuneInString(s, i)
               IN  IF d.r = RuneError /\ d.size = 1
                   THEN ReadChars(s, i + 1, acc \o EncodeRune(RuneError))
                   ELSE ReadChars(s, i + d.size, acc \o Slice(s, i, i + d.size))

\* A string at offset i.
ReadString(s, i) ==
    IF i < Len(s) /\ s[i + 1] = Chr("\"") THEN ReadChars(s, i + 1, <<>>) ELSE NoRead

RECURSIVE SkipDigits(_, _)
SkipDigits(s, i) == IF i < Len(s) /\ IsDigit(s[i + 1]) THEN SkipDigits(s, i + 1) ELSE i

\* A number at offset i: -? (0 | [1-9][0-9]*) (. [0-9]+)? ([eE] [+-]? [0-9]+)?
ReadNumber(s, i) ==
    LET i0 == IF i < Len(s) /\ s[i + 1] = Chr("-") THEN i + 1 ELSE i
        i1 == IF i0 < Len(s) /\ s[i0 + 1] = Chr("0") THEN i0 + 1 ELSE SkipDigits(s, i0)
        f0 == IF i1 < Len(s) /\ s[i1 + 1] = Chr(".") THEN SkipDigits(s, i1 + 1) ELSE i1
        e0 == IF f0 < Len(s) /\ s[f0 + 1] \in {Chr("e"), Chr("E")}
              THEN IF f0 + 1 < Len(s) /\ s[f0 + 2] \in {Chr("+"), Chr("-")}
                   THEN f0 + 2 ELSE f0 + 1
              ELSE f0
        e1 == IF e0 > f0 THEN SkipDigits(s, e0) ELSE f0
    IN  IF i1 = i0 \/ (f0 > i1 /\ f0 = i1 + 1) \/ (e0 > f0 /\ e1 = e0) THEN NoRead
        ELSE Read(JValue("number", Slice(s, i, e1), <<>>, <<>>), e1)

RECURSIVE ReadValue(_, _, _)
RECURSIVE ReadElements(_, _, _, _)
RECURSIVE ReadMembers(_, _, _, _, _)

\* The elements of an array from offset i on, the first already expected
\* there; acc holds the elements read.  A strict reader wants a comma
\* between two elements; a reader that is not strict also takes the next
\* element where the comma should be.
ReadElements(s, i, strict, acc) ==
    LET e == ReadValue(s, SkipWs(s, i), strict)
        j == SkipWs(s, e.next)
        items == Append(acc, e.v)
    IN  IF ~e.ok \/ j >= Len(s) THEN NoRead
        ELSE IF s[j + 1] = Chr("]") THEN Read(JValue("array", <<>>, <<>>, items), j + 1)
        ELSE IF s[j + 1] = Chr(",") THEN ReadElements(s, j + 1, strict, items)
        ELSE IF ~strict THEN ReadElements(s, j, strict, items)
        ELSE NoRead

\* The members of an object from offset i on, the first key expected there.
ReadMembers(s, i, strict, keys, acc) ==
    LET k == ReadString(s, SkipWs(s, i))
        c == SkipWs(s, k.next)
        e == ReadValue(s, SkipWs(s, c + 1), strict)
        j == SkipWs(s, e.next)
    IN  IF ~k.ok \/ c >= Len(s) THEN NoRead
        ELSE IF s[c + 1] # Chr(":") THEN NoRead
        ELSE IF ~e.ok \/ j >= Len(s) THEN NoRead
        ELSE IF s[j + 1] = Chr("}")
             THEN Read(JValue("object", <<>>, Append(keys, k.v.s), Append(acc, e.v)), j + 1)
        ELSE IF s[j + 1] = Chr(",")
             THEN ReadMembers(s, j + 1, strict, Append(keys, k.v.s), Append(acc, e.v))
        ELSE NoRead

\* The value at offset i.
ReadValue(s, i, strict) ==
    IF i >= Len(s) THEN NoRead
    ELSE
      LET c == s[i + 1]
          j == SkipWs(s, i + 1)
      IN  IF c = Chr("\"") THEN ReadString(s, i)
          ELSE IF c = Chr("-") \/ IsDigit(c) THEN ReadNumber(s, i)
          ELSE IF c = Chr("[")
          THEN IF j < Len(s) /\ s[j + 1] = Chr("]")
               THEN Read(JValue("array", <<>>, <<>>, <<>>), j + 1)
               ELSE ReadElements(s, j, strict, <<>>)
          ELSE IF c = Chr("{")
          THEN IF j < Len(s) /\ s[j + 1] = Chr("}")
               THEN Read(JValue("object", <<>>, <<>>, <<>>), j + 1)
               ELSE ReadMembers(s, j, strict, <<>>, <<>>)
          ELSE IF HasAt(s, i, Lit(<<"t", "r", "u", "e">>))
               THEN Read(JValue("true", <<>>, <<>>, <<>>), i + 4)
          ELSE IF HasAt(s, i, Lit(<<"f", "a", "l", "s", "e">>))
               THEN Read(JValue("false", <<>>, <<>>, <<>>), i + 5)
          ELSE IF HasAt(s, i, Lit(<<"n", "u", "l", "l">>)) THEN Read(JNull, i + 4)
          ELSE NoRead

\* The document buf decoded: one value and nothing after it.
Decode(buf, strict) ==
    LET r == ReadValue(buf, SkipWs(buf, 0), strict)
    IN  IF r.ok /\ SkipWs(buf, r.next) = Len(buf) THEN r ELSE NoRead

\* Whether buf is a well-formed JSON document.
WellFormed(buf) == Decode(buf, TRUE).ok

\* The member of object v with the given key; JNull when v has none.
Member(v, key) ==
    IF v.t = "object" /\ \E i \in 1..Len(v.keys) : v.keys[i] = key
    THEN v.items[CHOOSE i \in 1..Len(v.keys) : v.keys[i] = key]
    ELSE JNull

RECURSIVE ParseUint(_, _)
\* The number written by the decimal digits s, read left to right with acc
\* the value so far.
ParseUint(s, acc) ==
    IF s = <<>> THEN acc ELSE ParseUint(Tail(s), acc * 10 + (Head(s) - Chr("0")))

\* json.Number.Int64 of an integer literal.
ParseInt(s) ==
    IF s # <<>> /\ Head(s) = Chr("-") THEN -ParseUint(Tail(s), 0) ELSE ParseUint(s, 0)

\* Whether s is the literal of an integer.
IsIntLiteral(s) ==
    /\ s # <<>>
    /\ \A i \in 1..Len(s) : IsDigit(s[i]) \/ (i = 1 /\ s[i] = Chr("-") /\ Len(s) > 1)

\* The fraction digits of a timestamp as nanoseconds: digits, at most nine
\* of them counted, scaled to nine places.
RECURSIVE FracNanos(_, _, _)
FracNanos(s, k, acc) ==
    IF k > 9 THEN acc
    ELSE FracNanos(s, k + 1, acc * 10 + (IF k <= Len(s) THEN s[k] - Chr("0") ELSE 0))

\* time.Parse(time.RFC3339, s), as Time.UnmarshalJSON reads a timestamp:
\* YYYY-MM-DDTHH:MM:SS, an optional fraction, then Z or a numeric offset.
ParseTime(s) ==
    LET num(a, b) == ParseUint(SubSeq(s, a, b), 0)
        digits(a, b) == \A i \in a..b : IsDigit(s[i])
        fEnd == IF Len(s) > 19 /\ s[20] = Chr(".") THEN SkipDigits(s, 20) ELSE 19
        frac == IF fEnd > 19 THEN SubSeq(s, 21, fEnd) ELSE <<>>
        zone == SubSeq(s, fEnd + 1, Len(s))
        zoneOk ==
            \/ zone = <<Chr("Z")>>
            \/ /\ Len(zone) = 6
               /\ zone[1] \in {Chr("+"), Chr("-")}
               /\ IsDigit(zone[2]) /\ IsDigit(zone[3]) /\ zone[4] = Chr(":")
               /\ IsDigit(zone[5]) /\ IsDigit(zone[6])
        offset ==
            IF zone = <<Chr("Z")>> THEN 0
            ELSE (IF zone[1] = Chr("-") THEN -1 ELSE 1)
                 * (ParseUint(SubSeq(zone, 2, 3), 0) * 3600
                    + ParseUint(SubSeq(zone, 5, 6), 0) * 60)
        shapeOk ==
            /\ Len(s) >= 20
            /\ digits(1, 4) /\ s[5] = Chr("-") /\ digits(6, 7) /\ s[8] = Chr("-")
            /\ digits(9, 10) /\ s[11] = Chr("T") /\ digits(12, 13) /\ s[14] = Chr(":")
            /\ digits(15, 16) /\ s[17] = Chr(":") /\ digits(18, 19)
            /\ (fEnd > 19 => fEnd > 20)
            /\ zoneOk
        rangeOk ==
            /\ num(6, 7) \in 1..12 /\ num(9, 10) \in 1..31
            /\ num(12, 13) < 24 /\ num(15, 16) < 60 /\ num(18, 19) < 60
    IN  IF shapeOk /\ rangeOk
        THEN [ok |-> TRUE,
              t  |-> Date(num(1, 4), num(6, 7), num(9, 10), num(12, 13), num(15, 16),
                          num(18, 19), FracNanos(frac, 1, 0), offset)]
        ELSE [ok |-> FALSE, t |-> ZeroTime]

\* Time.Equal to the millisecond: the same instant, whatever the location.
SameMillisecond(t, u) ==
    t.day = u.day /\ t.sec = u.sec /\ t.nsec \div 1000000 = u.nsec \div 1000000

(***************************************************************************)
(* What the claims read: the serialized policy of the current state        *)
(***************************************************************************)

KeyExpiration == Lit(<<"e", "x", "p", "i", "r", "a", "t", "i", "o", "n">>)
KeyConditions == Lit(<<"c", "o", "n", "d", "i", "t", "i", "o", "n", "s">>)
NameContentLengthRange ==
    Lit(<<"c", "o", "n", "t", "e", "n", "t", "-", "l", "e", "n", "g", "t", "h",
          "-", "r", "a", "n", "g", "e">>)

\* The bytes marshalJSON gives for the policy of the current state.
Document == marshalJSON(self)

\* The conditions array of a decoded document.
ConditionsOf(r) == Member(r.v, KeyConditions).items

\* The decoded forms of a string and of an integer.
JString(b) == JValue("string", b, <<>>, <<>>)
JNumber(n) == JValue("number", AppendInt(<<>>, n), <<>>, <<>>)
JArray(items) == JValue("array", <<>>, <<>>, items)

\* Whether the decoded value a is a content-length-range condition.
IsRangeCondition(a) ==
    a.t = "array" /\ Len(a.items) >= 1 /\ a.items[1] = JString(NameContentLengthRange)

\* The match type and the field a condition-adding setter is documented to
\* write (spec 4.1).
MatchTypeOf(op) == IF op = "SetKeyStartsWith" THEN MatchStartsWith ELSE MatchEq
FieldOf(op) ==
    CASE op = "SetKey" -> "key"
      [] op = "SetKeyStartsWith" -> "key"
      [] op = "SetBucket" -> "bucket"
      [] op = "SetContentType" -> "Content-Type"
      [] op = "SetSuccessStatusAction" -> "success_action_status"
ConditionOf(op) ==
    CASE op = "SetKey" -> CondKey
      [] op = "SetKeyStartsWith" -> CondKey
      [] op = "SetBucket" -> CondBucket
      [] op = "SetContentType" -> CondContentType
      [] op = "SetSuccessStatusAction" -> CondSuccessActionStatus

\* C1: in every reachable state the serialized policy is a well-formed JSON
\* document, an object whose "conditions" member is an array with one
\* element per condition (commas between consecutive elements, none
\* leading or trailing) plus the range when active, and [] when there is
\* neither condition nor range.
C1_WellFormedCommaJoined ==
    LET r == Decode(Document, TRUE)
    IN  /\ r.ok
        /\ r.v.t = "object"
        /\ Member(r.v, KeyConditions).t = "array"
        /\ Len(ConditionsOf(r)) = Len(conditions) + (IF RangeActive(self) THEN 1 ELSE 0)

\* C2: the conditions written in the serialized document, the range aside,
\* are the successful condition-adding calls, one per call and in call
\* order, each as [matchType, "$field", argument].  The arrays are read
\* where they stand, whether or not a comma separates them.
C2_ConditionsAreTheCallsInOrder ==
    LET r  == Decode(Document, FALSE)
        cs == SelectSeq(ConditionsOf(r), LAMBDA a : ~IsRangeCondition(a))
    IN  /\ r.ok
        /\ Len(cs) = Len(added)
        /\ \A i \in 1..Len(added) :
              cs[i] = JArray(<<JString(MatchTypeOf(added[i].op)),
                               JString(ConditionOf(added[i].op)),
                               JString(added[i].s)>>)

\* C2 witness: the same setter called twice with the same argument, both
\* kept, and a failed call after them.
C2_Witness ==
    /\ Len(added) = 2 /\ added[1] = added[2]
    /\ call.op \in ConditionSetters /\ err # Nil

\* C3: whenever the content-length range is active its condition is the
\* first element of the conditions array of the (well-formed) document.
C3_RangeFirst ==
    RangeActive(self) =>
        LET r == Decode(Document, TRUE)
        IN  /\ r.ok
            /\ Len(ConditionsOf(r)) = Len(conditions) + 1
            /\ ConditionsOf(r)[1] = JArray(<<JString(NameContentLengthRange),
                                             JNumber(contentLengthRange.min),
                                             JNumber(contentLengthRange.max)>>)
            /\ \A i \in 2..Len(ConditionsOf(r)) : ~IsRangeCondition(ConditionsOf(r)[i])

\* C3 witness: the range set after two other setters had been called.
C3_Witness ==
    /\ call.op = "SetContentLengthRange" /\ err = Nil /\ RangeActive(self)
    /\ Len(conditions) = 2

\* The first condition of the decoded document is the range (min, max).
FirstIsRange(r, min, max) ==
    /\ r.ok
    /\ Len(ConditionsOf(r)) >= 1
    /\ LET a == ConditionsOf(r)[1]
       IN  /\ a.t = "array" /\ Len(a.items) = 3
           /\ a.items[1] = JString(NameContentLengthRange)
           /\ a.items[2].t = "number" /\ IsIntLiteral(a.items[2].s)
           /\ a.items[3].t = "number" /\ IsIntLiteral(a.items[3].s)
           /\ ParseInt(a.items[2].s) = min
           /\ ParseInt(a.items[3].s) = max

\* C4 as stated: after SetContentLengthRange(min, max) with 0 <= min <= max
\* (min = max = 0 included) the call has succeeded and the first condition
\* of the document is ["content-length-range", min, max].
C4_AsStated ==
    (call.op = "SetContentLengthRange" /\ 0 <= call.min /\ call.min <= call.max) =>
        /\ err = Nil
        /\ FirstIsRange(Decode(Document, TRUE), call.min, call.max)

\* C4: after SetContentLengthRange(min, max) with 0 <= min <= max the call
\* has succeeded; when min or max is not zero the first condition of the
\* document is ["content-length-range", min, max] with those values, and
\* when both are zero the document holds no content-length-range condition.
C4_ValidRangeSerialized ==
    (call.op = "SetContentLengthRange" /\ 0 <= call.min /\ call.min <= call.max) =>
        /\ err = Nil
        /\ (call.min # 0 \/ call.max # 0) =>
              FirstIsRange(Decode(Document, TRUE), call.min, call.max)
        /\ (call.min = 0 /\ call.max = 0) =>
              LET r == Decode(Document, FALSE)
              IN  r.ok /\ \A i \in 1..Len(ConditionsOf(r)) : ~IsRangeCondition(ConditionsOf(r)[i])

\* C4 witness: a range with equal, non-zero bounds set on a policy that has
\* a condition.
C4_Witness ==
    /\ call.op = "SetContentLengthRange" /\ err = Nil
    /\ call.min = call.max /\ call.min > 0
    /\ conditions # <<>>

\* The state of the builder.
builder == <<expiration, conditions, contentLengthRange, formData>>

\* C5: a step that calls a string setter with an empty or all-whitespace
\* argument returns an InvalidArgument error and changes nothing of the
\* builder.
C5_BlankArgumentRejected ==
    [][(call'.op \in ConditionSetters /\ call'.s \in Blank) =>
           (err'.type = "InvalidArgumentError" /\ builder' = builder)]_vars

\* C5 witness: SetBucket refused an all-whitespace name on a policy that
\* holds conditions and form fields.
C5_Witness ==
    /\ call.op = "SetBucket" /\ call.s \in Blank /\ call.s # <<>>
    /\ err.type = "InvalidArgumentError"
    /\ conditions # <<>> /\ DOMAIN formData # {}

\* The form fields that mirror conditions.
MirroredFields == {"key", "bucket", "Content-Type", "success_action_status"}
FieldCondition(f) ==
    CASE f = "key" -> CondKey
      [] f = "bucket" -> CondBucket
      [] f = "Content-Type" -> CondContentType
      [] f = "success_action_status" -> CondSuccessActionStatus

\* The positions of the conditions on the field f.
ConditionsOn(f) == {i \in 1..Len(conditions) : conditions[i].condition = FieldCondition(f)}

Max(S) == CHOOSE x \in S : \A y \in S : y <= x

\* C6: the form data holds a mirrored field exactly when a condition on it
\* has been appended, and then with the value of the last such condition.
C6_FormDataMirrorsConditions ==
    \A f \in MirroredFields :
        /\ (f \in DOMAIN formData) <=> (ConditionsOn(f) # {})
        /\ ConditionsOn(f) # {} => formData[f] = conditions[Max(ConditionsOn(f))].value

\* C6 witness: SetKey, then SetKeyStartsWith with another value: the form
\* field holds the prefix.
C6_Witness ==
    /\ Len(conditions) = 2
    /\ conditions[1].matchType = MatchEq /\ conditions[1].condition = CondKey
    /\ conditions[2].matchType = MatchStartsWith /\ conditions[2].condition = CondKey
    /\ conditions[1].value # conditions[2].value
    /\ formData["key"] = conditions[2].value

\* C7: after SetExpires(t) the call has failed with InvalidArgument when t
\* is the zero instant; otherwise it has succeeded and the "expiration" of
\* the document, read by a timestamp parser, is t to the millisecond.
C7_ExpirationRoundTrips ==
    call.op = "SetExpires" =>
        IF IsZero(call.t) THEN err.type = "InvalidArgumentError"
        ELSE /\ err = Nil
             /\ LET e == Member(Decode(Document, FALSE).v, KeyExpiration)
                    t == ParseTime(e.s)
                IN  e.t = "string" /\ t.ok /\ SameMillisecond(t.t, call.t)

\* The index of each character of the base64 alphabet; -1 for other bytes.
decodeStd ==
    [b \in 0..255 |->
        IF \E i \in 1..64 : encodeStd[i] = b
        THEN (CHOOSE i \in 1..64 : encodeStd[i] = b) - 1 ELSE -1]

\* base64.StdEncoding.DecodeString: groups of four characters, the last
\* one with up to two padding characters.
DecodeString(t) ==
    LET n    == Len(t)
        pad  == IF n >= 2 /\ t[n - 1] = StdPadding /\ t[n] = StdPadding THEN 2
                ELSE IF n >= 1 /\ t[n] = StdPadding THEN 1 ELSE 0
        val(i) == IF t[i] = StdPadding THEN 0 ELSE decodeStd[t[i]]
        byte(j) ==
            LET g == 4 * ((j - 1) \div 3)
                k == (j - 1) % 3
            IN  CASE k = 0 -> (val(g + 1) * 4) + (val(g + 2) \div 16)
                  [] k = 1 -> ((val(g + 2) % 16) * 16) + (val(g + 3) \div 4)
                  [] k = 2 -> ((val(g + 3) % 4) * 64) + val(g + 4)
    IN  IF n % 4 = 0 /\ \A i \in 1..(n - pad) : decodeStd[t[i]] >= 0
        THEN [ok |-> TRUE, b |-> [j \in 1..(3 * (n \div 4) - pad) |-> byte(j)]]
        ELSE [ok |-> FALSE, b |-> <<>>]

Presign == "PresignedPostPolicyV1"
PresignFields == {"policy", "OSSAccessKeyId", "signature"}

\* C8: a step that calls PresignedPostPolicyV1 returns an error when the
\* expiration is unset, when the form field key or bucket is absent, and
\* when the endpoint does not parse; every call that returns an error
\* returns no url and no form data and changes nothing of the builder.
C8_PresignRejectsAndLeavesFormData ==
    [][call'.op = Presign =>
          /\ (IsZero(expiration) \/ "key" \notin DOMAIN formData
                \/ "bucket" \notin DOMAIN formData \/ call'.c.Endpoint = BadEndpoint)
             => err'.type = "errorString"
          /\ err' # Nil =>
                /\ builder' = builder
                /\ ret'.nilData /\ ret'.u.nil]_vars

\* C8 witness: the presigning refused an endpoint that does not parse, on a
\* policy with expiration, key and bucket, and no policy field was written.
C8_Witness ==
    /\ call.op = Presign /\ call.c.Endpoint = BadEndpoint /\ err # Nil
    /\ ~IsZero(expiration) /\ {"key", "bucket"} \subseteq DOMAIN formData
    /\ PresignFields \cap DOMAIN formData = {}

\* The argument of the last successful SetBucket call.
LastBucket == added[Max({i \in 1..Len(added) : added[i].op = "SetBucket"})].s

\* C9: a step in which PresignedPostPolicyV1 succeeds returns the form data
\* of the builder with three fields added: policy, which base64-decodes to
\* the serialization of the policy as it was at the call; OSSAccessKeyId,
\* the access key id of the client; signature, the signature of that
\* policy value under the client's secret.  The mirrored fields keep their
\* values, and the path of the url is "/" and the last bucket set unless
\* the endpoint is a cname, whose own path is kept.
C9_PresignResult ==
    [][(call'.op = Presign /\ err' = Nil) =>
          LET c == call'.c
              f == ret'.formData
              d == DecodeString(f["policy"])
          IN  /\ ~ret'.nilData /\ ~ret'.u.nil
              /\ formData' = f
              /\ <<expiration', conditions', contentLengthRange'>>
                    = <<expiration, conditions, contentLengthRange>>
              /\ DOMAIN f = DOMAIN formData \cup PresignFields
              /\ d.ok /\ d.b = Document
              /\ f["policy"] = EncodeToString(Document)
              /\ f["OSSAccessKeyId"] = c.AccessKeyID
              /\ f["signature"] = PostPresignSignatureV1(f["policy"], c.AccessKeySecret)
              /\ \A x \in MirroredFields \cap DOMAIN formData : f[x] = formData[x]
              /\ ret'.u.Path = IF c.IsCname THEN <<>> ELSE <<Chr("/")>> \o LastBucket]_vars

\* C9 witness: the presigning succeeded on an endpoint that is no cname,
\* for a policy with an active content-length range.
C9_Witness ==
    /\ call.op = Presign /\ err = Nil /\ ~call.c.IsCname
    /\ RangeActive(self)
    /\ PresignFields \subseteq DOMAIN formData

Views == {"String", "marshalJSON", "base64"}

\* What the view op returns for the policy q.
ViewOf(op, q) == IF op = "base64" THEN EncodeToString(marshalJSON(q)) ELSE marshalJSON(q)

RangeConditionsOf(r) == SelectSeq(ConditionsOf(r), IsRangeCondition)

\* C11: a step that calls SetContentLengthRange with min > max or a negative
\* bound returns an InvalidArgument error and leaves the stored range as it
\* was, a step that calls it with 0 <= min <= max stores (min, max), and no
\* other step changes the stored range.  In every state 0 <= min <= max
\* holds of the stored range and the document has at most one
\* content-length-range condition, whose bounds are the stored ones.
C11_RangeValidSingleAndLatest ==
    /\ [](/\ 0 <= contentLengthRange.min
          /\ contentLengthRange.min <= contentLengthRange.max
          /\ LET r  == Decode(Document, FALSE)
                 rs == RangeConditionsOf(r)
             IN  /\ r.ok
                 /\ Len(rs) <= 1
                 /\ Len(rs) = 1 =>
                       /\ Len(rs[1].items) = 3
                       /\ rs[1].items[2].t = "number" /\ IsIntLiteral(rs[1].items[2].s)
                       /\ rs[1].items[3].t = "number" /\ IsIntLiteral(rs[1].items[3].s)
                       /\ ParseInt(rs[1].items[2].s) = contentLengthRange.min
                       /\ ParseInt(rs[1].items[3].s) = contentLengthRange.max)
    /\ [][IF call'.op = "SetContentLengthRange"
          THEN IF call'.min > call'.max \/ call'.min < 0 \/ call'.max < 0
               THEN err'.type = "InvalidArgumentError" /\ builder' = builder
               ELSE /\ err' = Nil
                    /\ contentLengthRange' = [min |-> call'.min, max |-> call'.max]
          ELSE contentLengthRange' = contentLengthRange]_vars

\* C11 witness: SetContentLengthRange refused a negative bound on a policy
\* whose range had been set, and the range is still written in the document.
C11_Witness ==
    /\ call.op = "SetContentLengthRange" /\ call.min < 0 /\ err # Nil
    /\ contentLengthRange.min > 0
    /\ Len(RangeConditionsOf(Decode(Document, FALSE))) = 1

\* The well-formed UTF-8 byte sequences (Unicode, table 3-7): the range of
\* each byte of a sequence.
WellFormedTable ==
    {<<<<0, 127>>>>,
     <<<<194, 223>>, <<128, 191>>>>,
     <<<<224, 224>>, <<160, 191>>, <<128, 191>>>>,
     <<<<225, 236>>, <<128, 191>>, <<128, 191>>>>,
     <<<<237, 237>>, <<128, 159>>, <<128, 191>>>>,
     <<<<238, 239>>, <<128, 191>>, <<128, 191>>>>,
     <<<<240, 240>>, <<144, 191>>, <<128, 191>>, <<128, 191>>>>,
     <<<<241, 243>>, <<128, 191>>, <<128, 191>>, <<128, 191>>>>,
     <<<<244, 244>>, <<128, 143>>, <<128, 191>>, <<128, 191>>>>}

\* Whether the bytes of s at offset i match the row of the table.
MatchesRow(s, i, row) ==
    /\ i + Len(row) <= Len(s)
    /\ \A k \in 1..Len(row) : row[k][1] <= s[i + k] /\ s[i + k] <= row[k][2]

\* The length of the well-formed sequence of s at offset i; 0 when none
\* starts there.
WellFormedLen(s, i) ==
    IF \E row \in WellFormedTable : MatchesRow(s, i, row)
    THEN Len(CHOOSE row \in WellFormedTable : MatchesRow(s, i, row))
    ELSE 0

RECURSIVE ValidFrom(_, _)
\* Whether s is well-formed UTF-8 from offset i on.
ValidFrom(s, i) ==
    IF i >= Len(s) THEN TRUE
    ELSE LET n == WellFormedLen(s, i) IN n > 0 /\ ValidFrom(s, i + n)

ValidUTF8(s) == ValidFrom(s, 0)

\* C12: when the policy holds one condition whose value is well-formed
\* UTF-8, the document is well-formed JSON and the value read from it by a
\* JSON parser is the value, byte for byte.
C12_EscapingRoundTrips ==
    (Len(conditions) = 1 /\ ValidUTF8(conditions[1].value)) =>
        LET r == Decode(Document, TRUE)
        IN  /\ r.ok
            /\ Len(ConditionsOf(r)) = 1
            /\ ConditionsOf(r)[1] = JArray(<<JString(conditions[1].matchType),
                                             JString(conditions[1].condition),
                                             JString(conditions[1].value)>>)

\* C12 witness: marshalJSON of a policy whose key is a tab and a character
\* of four bytes; the document holds the escape of the tab and the four
\* bytes.
C12_Witness ==
    /\ call.op = "marshalJSON"
    /\ Len(conditions) = 1
    /\ conditions[1].value = <<9, 240, 159, 152, 128>>
    /\ ret.buf = LitExpiration \o Lit(<<"0", "0", "0", "1", "-", "0", "1", "-", "0", "1",
                                        "T", "0", "0", ":", "0", "0", ":", "0", "0", "Z">>)
                   \o LitConditions \o Lit(<<"[", "\"", "e", "q", "\"", ",", "\"", "$",
                                             "k", "e", "y", "\"", ",", "\"", "\\", "t">>)
                   \o <<240, 159, 152, 128>> \o Lit(<<"\"", "]", "]", "}">>)

\* The lowercase hexadecimal digit of d.
LowerHex(d) == IF d < 10 THEN 48 + d ELSE 87 + d

RECURSIVE EscapeRule(_, _)
\* The escaping rule (spec 4.1) applied to s from offset i on.
EscapeRule(s, i) ==
    IF i >= Len(s) THEN <<>>
    ELSE
      LET b == s[i + 1]
          n == WellFormedLen(s, i)
      IN  IF b = 92 \/ b = 34 THEN <<92, b>> \o EscapeRule(s, i + 1)
          ELSE IF b = 10 THEN <<92, 110>> \o EscapeRule(s, i + 1)
          ELSE IF b = 13 THEN <<92, 114>> \o EscapeRule(s, i + 1)
          ELSE IF b = 9 THEN <<92, 116>> \o EscapeRule(s, i + 1)
          ELSE IF b < 32
               THEN <<92, 117, 48, 48, LowerHex(b \div 16), LowerHex(b % 16)>>
                        \o EscapeRule(s, i + 1)
          ELSE IF n = 0 THEN <<92, 117, 102, 102, 102, 100>> \o EscapeRule(s, i + 1)
          ELSE Slice(s, i, i + n) \o EscapeRule(s, i + n)

\* C16: what safeAppendString returns for a byte string is the string the
\* escaping rule gives, each byte of the input taken once and in order.
C16_SafeAppendStringFollowsRule ==
    call.op = "safeAppendString" => ret.buf = EscapeRule(call.s, 0)

\* C16 witness: safeAppendString of an invalid byte followed by a
\* well-formed character of three bytes.
C16_Witness ==
    /\ call.op = "safeAppendString"
    /\ call.s = <<255, 226, 130, 172>>
    /\ ret.buf = <<92, 117, 102, 102, 102, 100, 226, 130, 172>>

\* The "expiration" string of the document.
ExpirationText == Member(Decode(Document, FALSE).v, KeyExpiration).s

\* Whether e is written as YYYY-MM-DDTHH:mm:ss.sssZ.
HasFixedLayout(e) ==
    /\ Len(e) = 24
    /\ \A i \in 1..24 :
          IF i \in {5, 8} THEN e[i] = Chr("-")
          ELSE IF i = 11 THEN e[i] = Chr("T")
          ELSE IF i \in {14, 17} THEN e[i] = Chr(":")
          ELSE IF i = 20 THEN e[i] = Chr(".")
          ELSE IF i = 24 THEN e[i] = Chr("Z")
          ELSE IsDigit(e[i])

\* C13: whenever an expiration is stored, the "expiration" of the document
\* is written as YYYY-MM-DDTHH:mm:ss.sssZ, with exactly three digits of
\* fraction before the Z.
C13_ExpirationFixedLayout ==
    ~IsZero(expiration) => HasFixedLayout(ExpirationText)

\* C14: a step that calls SetExpires with the zero instant returns an
\* InvalidArgument error and changes nothing of the builder, a step that
\* calls it with another instant stores that instant, and no other step
\* changes the stored expiration.
C14_ExpirationIsLatestSet ==
    [][IF call'.op = "SetExpires"
       THEN IF IsZero(call'.t)
            THEN err'.type = "InvalidArgumentError" /\ builder' = builder
            ELSE err' = Nil /\ expiration' = call'.t
       ELSE expiration' = expiration]_vars

\* C14 witness: SetExpires refused the zero instant on a policy that holds
\* an expiration with milliseconds and a condition; the expiration is still
\* the one written in the document.
C14_Witness ==
    /\ call.op = "SetExpires" /\ IsZero(call.t) /\ err.type = "InvalidArgumentError"
    /\ expiration = Date(2017, 1, 23, 4, 5, 6, 7000000, 0)
    /\ conditions # <<>>
    /\ ExpirationText = Lit(<<"2", "0", "1", "7", "-", "0", "1", "-", "2", "3", "T",
                              "0", "4", ":", "0", "5", ":", "0", "6", ".", "0", "0", "7", "Z">>)

\* C15: every stored condition has a match type, a condition and a value
\* that are not empty, its match type is eq or starts-with and its value is
\* not all whitespace; a step that appends a condition or writes a mirrored
\* form field appends exactly one condition, one that addNewPolicy accepts,
\* and returns no error.
C15_StoredConditionsValid ==
    /\ [](\A i \in 1..Len(conditions) :
             /\ conditions[i].matchType \in {MatchEq, MatchStartsWith}
             /\ conditions[i].condition # <<>>
             /\ conditions[i].value # <<>>
             /\ TrimSpace(conditions[i].value) # <<>>)
    /\ [][(conditions' # conditions
            \/ \E f \in MirroredFields :
                  (f \in DOMAIN formData') # (f \in DOMAIN formData)
                  \/ (f \in DOMAIN formData /\ formData'[f] # formData[f]))
          => /\ call'.op \in ConditionSetters /\ err' = Nil
             /\ Len(conditions') = Len(conditions) + 1
             /\ SubSeq(conditions', 1, Len(conditions)) = conditions
             /\ addNewPolicy(self, conditions'[Len(conditions')]).err = Nil
             /\ formData'[FieldOf(call'.op)] = call'.s]_vars

\* C15 witness: a string setter refused an all-whitespace argument on a
\* policy that holds two conditions.
C15_Witness ==
    /\ call.op \in ConditionSetters /\ call.s # <<>> /\ TrimSpace(call.s) = <<>>
    /\ err.type = "InvalidArgumentError"
    /\ Len(conditions) = 2

\* C17: a step in which PresignedPostPolicyV1 succeeds returns the url and
\* the form data the same call returns on the twin policy, which has had
\* the same setter calls and no presigning; and a successful call that
\* follows at once a successful call with the same client returns what that
\* one returned and leaves the form data of the builder as they are.
C17_PresignRepeatable ==
    [][(call'.op = Presign /\ err' = Nil) =>
          /\ LET fresh == PresignedPostPolicyV1(call'.c, twin)
             IN  /\ fresh.err = Nil
                 /\ ret'.u = fresh.u
                 /\ ret'.formData = fresh.formData
          /\ (call.op = Presign /\ err = Nil /\ call.c = call'.c) =>
                ret' = ret /\ formData' = formData]_vars

\* C17 witness: the presigning succeeded for a cname client on a policy
\* with two conditions, and the form data of the builder, the three
\* presigning fields among them, are the ones returned.
C17_Witness ==
    /\ call.op = Presign /\ err = Nil /\ call.c.IsCname
    /\ Len(conditions) = 2
    /\ ret.formData = formData
    /\ PresignFields \subseteq DOMAIN formData
    /\ PresignFields \cap DOMAIN twin.formData = {}

====
